---- MODULE Spec2Model ----
(***************************************************************************)
(* Model of the workout-api controllers:                                   *)
(*   workout_api/atleta/controller.py             (athlete CRUD)           *)
(*   workout_api/centro_treinamento/controller.py (training-center CRUD)   *)
(*   workout_api/centro_treinamento/schemas.py    (training-center schema) *)
(*                                                                         *)
(* The store is the committed content of the three tables.  A handler that *)
(* awaits the database more than once (athlete post: two selects and a     *)
(* commit) is one action per await, so that other requests interleave      *)
(* between them; every other handler reads or writes the database at most  *)
(* once and is one action.  db_session is an AsyncSession (post awaits     *)
(* execute and commit), so a call to one of its coroutine methods that is  *)
(* not awaited builds a coroutine object and runs nothing.                 *)
(***************************************************************************)
EXTENDS Integers, Sequences, FiniteSets, TLC

\* ------------------------------------------------------------- bounds
MaxCategorias == 1
MaxCentros == 1
MaxAtletas == 2

\* Names a payload may carry for a category or a training center.
Nomes == {"n1", "n2"}
Enderecos == {"e1"}
Proprietarios == {"p1"}
\* Athlete-specific fields of AtletaIn / AtletaUpdate.
AtletaNomes == {"a1"}
AtletaPesos == {70}
UpdateNomes == {"a2"}
UpdatePesos == {80}

\* Request slots: Requests may run concurrently, Sequential runs one
\* athlete post at a time.
Requests == {1, 2}
Sequential == {1}

\* faulty variant: the id is drawn once, when the module is loaded
UUID_DrawnOnce(tag, n) == <<tag, 1>>

\* uuid4(): one value per call, never one returned before.  A UUID is
\* modelled as the handler that drew it and the number of its draw; a draw
\* of a request that then fails reaches no row and no response, and is not
\* counted.
UUID(tag, n) == <<tag, n>>
AtletaIds == {UUID("atleta", n) : n \in 1..(MaxAtletas + 1)}
CentroIds == {UUID("centro", n) : n \in 1..(MaxCentros + 1)}

VARIABLES
    categorias,   \* committed rows of CategoriaModel; pk_id is the index
    centros,      \* committed rows of CentroTreinamentoModel
    atletas,      \* committed rows of AtletaModel
    now,          \* datetime.now(timezone.utc): later at every reading stored
    drawn,        \* per handler: how many UUIDs of uuid4() it has stored
    req,          \* per request slot: the athlete post in flight
    resp          \* the response last sent

vars == <<categorias, centros, atletas, now, drawn, req, resp>>
store == <<categorias, centros, atletas>>

\* ------------------------------------------------------------ schemas
CentroTreinamentoIn == [nome : Nomes, endereco : Enderecos, proprietario : Proprietarios]

AtletaIn == [nome : AtletaNomes, peso : AtletaPesos, categoria : [nome : Nomes], centro_treinamento : [nome : Nomes]]

\* every field optional: a payload is a function on the fields it sets
UpdateValue(k, n, p) == IF k = "nome" THEN n ELSE p
AtletaUpdate == UNION {{[k \in K |-> UpdateValue(k, n, p)] : n \in UpdateNomes, p \in UpdatePesos} : K \in SUBSET {"nome", "peso"}}

CentroTreinamentoOut(id, in) == [id |-> id, nome |-> in.nome, endereco |-> in.endereco, proprietario |-> in.proprietario]

\* AtletaOut(id=uuid4(), create_at=datetime.now(...), **atleta_in.model_dump()):
\* the timestamp the controller passes is the representation's created_at
AtletaOut(id, create_at, in) == [id |-> id, created_at |-> create_at, nome |-> in.nome, peso |-> in.peso, categoria |-> in.categoria, centro_treinamento |-> in.centro_treinamento]

\* ------------------------------------------------------------ queries
\* select(Model).filter_by(col=v): the indexes (pk_id) of the matching rows
FilterByNome(table, nome) == {i \in 1..Len(table) : table[i].nome = nome}
FilterById(table, id) == {i \in 1..Len(table) : table[i].id = id}

\* .scalars().first(): no ORDER BY, any matching row may come first
First(matches) == IF matches = {} THEN {0} ELSE matches

\* ---------------------------------------------------------- responses
NoBody == <<>>
NoDetail == <<>>
NoInput == <<>>
\* what the client sees, with the request it answers: the endpoint, the path
\* id, the body sent, and the status, detail and body received
Response(op, id, input, status, detail, body) == [op |-> op, id |-> id, input |-> input, status |-> status, detail |-> detail, body |-> body]
\* raise HTTPException(status_code, detail=f"<msg> {arg}")
HTTPException(op, id, input, status, msg, arg) == Response(op, id, input, status, <<msg, arg>>, NoBody)

\* faulty variant: the row is written although the commit raised
Commit_Partial(table, row, commits) == Append(table, row)

\* db_session.add(row); await db_session.commit(): the row is committed, or
\* the commit raises and nothing is
Commit(table, row, commits) == IF commits THEN Append(table, row) ELSE table

Idle == [pc |-> "idle", atleta_in |-> <<>>, categoria |-> 0, centro_treinamento |-> 0]

InFlight == Cardinality({r \in Requests : req[r].pc # "idle"})

Init ==
    /\ categorias = <<>>
    /\ centros = <<>>
    /\ atletas = <<>>
    /\ now = 0
    /\ drawn = [atleta |-> 0, centro |-> 0]
    /\ req = [r \in Requests |-> Idle]
    /\ resp = Response("none", <<>>, NoInput, 0, NoDetail, NoBody)

\* ----------------------------------------------- categorias (implied)
CategoriaPost(nome) ==
    /\ Len(categorias) < MaxCategorias
    /\ categorias' = Append(categorias, [nome |-> nome])
    /\ resp' = Response("categoria_post", <<>>, <<[nome |-> nome]>>, 201, NoDetail, <<[nome |-> nome]>>)
    /\ UNCHANGED <<centros, atletas, now, drawn, req>>

\* ------------------------------------------------ centro_treinamento
\* post: the row is CentroTreinamentoOut's model_dump(); add, await commit.
\* A commit that raises is not caught: the framework answers 500 and the
\* session is discarded with nothing committed.
CentroPost(centro_treinamento_in, commits) ==
    /\ drawn.centro < MaxCentros
    /\ LET id == UUID("centro", drawn.centro + 1)
           centro_treinamento_out == CentroTreinamentoOut(id, centro_treinamento_in)
       IN  /\ drawn' = IF commits THEN [drawn EXCEPT !.centro = @ + 1] ELSE drawn
           /\ centros' = Commit(centros, centro_treinamento_out, commits)
           /\ \/ /\ commits
                 /\ resp' = Response("centro_post", id, <<centro_treinamento_in>>, 201, NoDetail, <<centro_treinamento_out>>)
              \/ /\ ~commits
                 /\ resp' = Response("centro_post", <<>>, <<centro_treinamento_in>>, 500, NoDetail, NoBody)
    /\ UNCHANGED <<categorias, atletas, now, req>>

CentroGetById(id) ==
    /\ \E pk \in First(FilterById(centros, id)) :
          \/ /\ pk = 0
             /\ resp' = HTTPException("centro_get", id, NoInput, 404, "Centro de Treinamento nao encontrado no id", id)
          \/ /\ pk # 0
             /\ resp' = Response("centro_get", id, NoInput, 200, NoDetail, <<centros[pk]>>)
    /\ UNCHANGED <<categorias, centros, atletas, now, drawn, req>>

\* ------------------------------------------------------------ atleta
\* faulty variant: line 59 missing, categoria_id is never set
AtletaModel_NoCategoriaId(atleta_out, categoria_id, centro_treinamento_id) ==
    [id |-> atleta_out.id, created_at |-> atleta_out.created_at, nome |-> atleta_out.nome, peso |-> atleta_out.peso,
     categoria_id |-> 0, centro_treinamento_id |-> centro_treinamento_id]

\* faulty variant: line 60 missing, centro_treinamento_id is never set
AtletaModel_NoCentroId(atleta_out, categoria_id, centro_treinamento_id) ==
    [id |-> atleta_out.id, created_at |-> atleta_out.created_at, nome |-> atleta_out.nome, peso |-> atleta_out.peso,
     categoria_id |-> categoria_id, centro_treinamento_id |-> 0]

\* faulty variant: created_at is left to the column's default, set at the insert
AtletaModel_CreatedAtDefault(atleta_out, categoria_id, centro_treinamento_id) ==
    [id |-> atleta_out.id, created_at |-> atleta_out.created_at + 1, nome |-> atleta_out.nome, peso |-> atleta_out.peso,
     categoria_id |-> categoria_id, centro_treinamento_id |-> centro_treinamento_id]

\* AtletaModel(**atleta_out.model_dump(exclude={categoria, centro_treinamento}))
\* with the two foreign keys set from the rows the lookups found
AtletaModel(atleta_out, categoria_id, centro_treinamento_id) ==
    [id |-> atleta_out.id, created_at |-> atleta_out.created_at, nome |-> atleta_out.nome, peso |-> atleta_out.peso,
     categoria_id |-> categoria_id, centro_treinamento_id |-> centro_treinamento_id]

\* response_model=AtletaOut over an AtletaModel: the columns, and the names
\* of the rows its two foreign keys reference
Related(table, pk) == IF pk \in 1..Len(table) THEN [nome |-> table[pk].nome] ELSE [nome |-> "None"]
ModelValidate(atleta) ==
    [id |-> atleta.id, created_at |-> atleta.created_at, nome |-> atleta.nome, peso |-> atleta.peso,
     categoria |-> Related(categorias, atleta.categoria_id),
     centro_treinamento |-> Related(centros, atleta.centro_treinamento_id)]

\* the request arrives: lines 27-28 read the two names of the payload
AtletaPostBegin(r, atleta_in) ==
    /\ req[r].pc = "idle"
    /\ drawn.atleta + InFlight < MaxAtletas
    /\ req' = [req EXCEPT ![r] = [pc |-> "categoria", atleta_in |-> <<atleta_in>>, categoria |-> 0, centro_treinamento |-> 0]]
    /\ UNCHANGED <<categorias, centros, atletas, now, drawn, resp>>

\* faulty variant: the training center is looked up before the category
AtletaPostCategoria_CentroFirst(r) ==
    /\ req[r].pc = "categoria"
    /\ LET categoria_name == req[r].atleta_in[1].categoria.nome
           centro_treinamento_nome == req[r].atleta_in[1].centro_treinamento.nome
       IN  \E centro_treinamento \in First(FilterByNome(centros, centro_treinamento_nome)), categoria \in First(FilterByNome(categorias, categoria_name)) :
              \/ /\ centro_treinamento = 0
                 /\ resp' = HTTPException("atleta_post", <<>>, req[r].atleta_in, 400, "O centro de treinamento nao foi encontrado", centro_treinamento_nome)
                 /\ req' = [req EXCEPT ![r] = Idle]
              \/ /\ centro_treinamento # 0
                 /\ categoria = 0
                 /\ resp' = HTTPException("atleta_post", <<>>, req[r].atleta_in, 400, "A categoria nao foi encontrada", categoria_name)
                 /\ req' = [req EXCEPT ![r] = Idle]
              \/ /\ centro_treinamento # 0
                 /\ categoria # 0
                 /\ req' = [req EXCEPT ![r].pc = "centro", ![r].categoria = categoria]
                 /\ resp' = resp
    /\ UNCHANGED <<categorias, centros, atletas, now, drawn>>

\* lines 30-39
AtletaPostCategoria(r) ==
    /\ req[r].pc = "categoria"
    /\ LET categoria_name == req[r].atleta_in[1].categoria.nome
       IN  \E categoria \in First(FilterByNome(categorias, categoria_name)) :
              \/ /\ categoria = 0
                 /\ resp' = HTTPException("atleta_post", <<>>, req[r].atleta_in, 400, "A categoria nao foi encontrada", categoria_name)
                 /\ req' = [req EXCEPT ![r] = Idle]
              \/ /\ categoria # 0
                 /\ req' = [req EXCEPT ![r].pc = "centro", ![r].categoria = categoria]
                 /\ resp' = resp
    /\ UNCHANGED <<categorias, centros, atletas, now, drawn>>

\* lines 41-50
AtletaPostCentro(r) ==
    /\ req[r].pc = "centro"
    /\ LET centro_treinamento_nome == req[r].atleta_in[1].centro_treinamento.nome
       IN  \E centro_treinamento \in First(FilterByNome(centros, centro_treinamento_nome)) :
              \/ /\ centro_treinamento = 0
                 /\ resp' = HTTPException("atleta_post", <<>>, req[r].atleta_in, 400, "O centro de treinamento nao foi encontrado", centro_treinamento_nome)
                 /\ req' = [req EXCEPT ![r] = Idle]
              \/ /\ centro_treinamento # 0
                 /\ req' = [req EXCEPT ![r].pc = "insert", ![r].centro_treinamento = centro_treinamento]
                 /\ resp' = resp
    /\ UNCHANGED <<categorias, centros, atletas, now, drawn>>

\* lines 52-70: anything raised inside the try (building the schema or the
\* model, the commit) is answered with the generic 500; the failed commit
\* leaves nothing committed
AtletaPostInsert(r, commits) ==
    /\ req[r].pc = "insert"
    /\ LET id == UUID("atleta", drawn.atleta + 1)
           atleta_out == AtletaOut(id, now, req[r].atleta_in[1])
           atleta_model == AtletaModel(atleta_out, req[r].categoria, req[r].centro_treinamento)
       IN  /\ drawn' = IF commits THEN [drawn EXCEPT !.atleta = @ + 1] ELSE drawn
           /\ atletas' = Commit(atletas, atleta_model, commits)
           /\ \/ /\ commits
                 /\ resp' = Response("atleta_post", id, req[r].atleta_in, 201, NoDetail, <<atleta_out>>)
              \/ /\ ~commits
                 /\ resp' = HTTPException("atleta_post", <<>>, req[r].atleta_in, 500, "Ocorreu um erro ao inserir os dados no banco", <<>>)
    /\ now' = IF commits THEN now + 1 ELSE now
    /\ req' = [req EXCEPT ![r] = Idle]
    /\ UNCHANGED <<categorias, centros>>

\* lines 96-108
AtletaGetById(id) ==
    /\ \E pk \in First(FilterById(atletas, id)) :
          \/ /\ pk = 0
             /\ resp' = HTTPException("atleta_get", id, NoInput, 404, "Atleta nao encontrado no id", id)
          \/ /\ pk # 0
             /\ resp' = Response("atleta_get", id, NoInput, 200, NoDetail, <<ModelValidate(atletas[pk])>>)
    /\ UNCHANGED <<categorias, centros, atletas, now, drawn, req>>

\* faulty variant: model_dump() without exclude_unset, the unset fields are None
SetAttrs_AllFields(atleta, atleta_up) ==
    [k \in DOMAIN atleta \cup {"nome", "peso"} |->
        IF k \in DOMAIN atleta_up THEN atleta_up[k] ELSE IF k \in {"nome", "peso"} THEN "None" ELSE atleta[k]]

\* lines 129-132: setattr of every key the payload sets (exclude_unset)
SetAttrs(atleta, atleta_up) ==
    [k \in DOMAIN atleta \cup DOMAIN atleta_up |-> IF k \in DOMAIN atleta_up THEN atleta_up[k] ELSE atleta[k]]

\* lines 117-137: the attributes are set on the loaded object, which is what
\* the handler returns.  db_session.commit() and db_session.refresh(atleta)
\* are not awaited: neither runs, the session ends with the change
\* uncommitted and the table keeps the row as it was.
AtletaPatch(id, atleta_update) ==
    /\ \E pk \in First(FilterById(atletas, id)) :
          \/ /\ pk = 0
             /\ resp' = HTTPException("atleta_patch", id, <<atleta_update>>, 404, "Atleta nao encontrado no id", id)
          \/ /\ pk # 0
             /\ resp' = Response("atleta_patch", id, <<atleta_update>>, 200, NoDetail, <<ModelValidate(SetAttrs(atletas[pk], atleta_update))>>)
    /\ atletas' = atletas
    /\ UNCHANGED <<categorias, centros, now, drawn, req>>

\* faulty variant: the "if not atleta" of lines 151-155 missing
AtletaDelete_NoCheck(id) ==
    /\ resp' = Response("atleta_delete", id, NoInput, 204, NoDetail, NoBody)
    /\ atletas' = atletas
    /\ UNCHANGED <<categorias, centros, now, drawn, req>>

\* lines 145-158: db_session.delete(atleta) and db_session.commit() are not
\* awaited: neither runs and the row stays.  The handler returns None: 204.
AtletaDelete(id) ==
    /\ \E pk \in First(FilterById(atletas, id)) :
          \/ /\ pk = 0
             /\ resp' = HTTPException("atleta_delete", id, NoInput, 404, "Atleta nao encontrado no id", id)
          \/ /\ pk # 0
             /\ resp' = Response("atleta_delete", id, NoInput, 204, NoDetail, NoBody)
    /\ atletas' = atletas
    /\ UNCHANGED <<categorias, centros, now, drawn, req>>

\* ------------------------------------------------------ specifications
Setup ==
    \/ \E nome \in Nomes : CategoriaPost(nome)
    \/ \E in \in CentroTreinamentoIn, commits \in BOOLEAN : CentroPost(in, commits)

AtletaPost(r) ==
    \/ \E in \in AtletaIn : AtletaPostBegin(r, in)
    \/ AtletaPostCategoria(r)
    \/ AtletaPostCentro(r)
    \/ \E commits \in BOOLEAN : AtletaPostInsert(r, commits)

Reads ==
    \/ \E id \in CentroIds : CentroGetById(id)
    \/ \E id \in AtletaIds : AtletaGetById(id)
    \/ \E id \in AtletaIds, up \in AtletaUpdate : AtletaPatch(id, up)
    \/ \E id \in AtletaIds : AtletaDelete(id)

\* every endpoint, one athlete post in flight at a time
Next == Setup \/ Reads \/ \E r \in Sequential : AtletaPost(r)
Spec == Init /\ [][Next]_vars

\* concurrent athlete posts over a store that categories and centers join
NextConcurrent == Setup \/ \E r \in Requests : AtletaPost(r)
SpecConcurrent == Init /\ [][NextConcurrent]_vars

\* ------------------------------------------------------------ claims
AtletaStored(id) == FilterById(atletas, id) # {}
CentroStored(id) == FilterById(centros, id) # {}
Succeeded(r, op, status) == r.op = op /\ r.status = status
\* the athlete post of slot r takes its step from pc
Steps(r, pc) == req[r].pc = pc /\ req'[r].pc # pc
AtletaInOf(r) == req[r].atleta_in[1]

\* C1 (as claimed): once DELETE on a stored athlete id has answered 204, the
\* next request, a GET on that id, answers 404.
C1_DeleteThenGetNotFound ==
    [][(Succeeded(resp, "atleta_delete", 204) /\ resp'.op = "atleta_get" /\ resp'.id = resp.id) => resp'.status = 404]_vars

\* C2 (as claimed): once PATCH has answered 200, the stored row holds the
\* payload's value in every field the payload sets.
C2_PatchPersisted ==
    Succeeded(resp, "atleta_patch", 200) =>
        \A pk \in FilterById(atletas, resp.id) : \A k \in DOMAIN resp.input[1] : atletas[pk][k] = resp.input[1][k]

\* C3: a PATCH that answers 200 leaves, in the stored row and in the
\* representation it returns, every field its payload does not set (id,
\* created_at and the two links among them) at its value before the
\* request, and leaves every other athlete row as it was.
C3_PatchFrame ==
    [][Succeeded(resp', "atleta_patch", 200) =>
          /\ Len(atletas') = Len(atletas)
          /\ \A pk \in 1..Len(atletas) :
                IF atletas[pk].id # resp'.id
                THEN atletas'[pk] = atletas[pk]
                ELSE /\ \A k \in DOMAIN atletas[pk] \ DOMAIN resp'.input[1] : atletas'[pk][k] = atletas[pk][k]
                     /\ \A k \in DOMAIN ModelValidate(atletas[pk]) \ DOMAIN resp'.input[1] :
                           resp'.body[1][k] = ModelValidate(atletas[pk])[k]]_vars

C3_Witness ==
    /\ Succeeded(resp, "atleta_patch", 200)
    /\ DOMAIN resp.input[1] = {"nome"}
    /\ resp.body[1].nome \in UpdateNomes
    /\ Len(atletas) = 2

\* C4: the category lookup of an athlete post comes first: with no category
\* of the payload's name the answer is 400 naming that category, whether or
\* not a training center of the payload's name exists; the center lookup
\* runs only with the category found, and with no center of the payload's
\* name answers 400 naming the center.
C4_CategoriaBeforeCentro ==
    [][\A r \in Requests :
          /\ (Steps(r, "categoria") /\ FilterByNome(categorias, AtletaInOf(r).categoria.nome) = {}) =>
                /\ resp'.status = 400
                /\ resp'.detail = <<"A categoria nao foi encontrada", AtletaInOf(r).categoria.nome>>
                /\ resp'.input = req[r].atleta_in
                /\ req'[r] = Idle
          /\ (Steps(r, "categoria") /\ FilterByNome(categorias, AtletaInOf(r).categoria.nome) # {}) =>
                /\ req'[r].pc = "centro"
                /\ resp' = resp
          /\ Steps(r, "centro") =>
                /\ req[r].categoria \in FilterByNome(categorias, AtletaInOf(r).categoria.nome)
                /\ FilterByNome(centros, AtletaInOf(r).centro_treinamento.nome) = {} =>
                      /\ resp'.status = 400
                      /\ resp'.detail = <<"O centro de treinamento nao foi encontrado", AtletaInOf(r).centro_treinamento.nome>>
                      /\ resp'.input = req[r].atleta_in
                      /\ req'[r] = Idle]_vars

\* a 400 naming the category although the center named in the payload exists
C4_Witness ==
    /\ Succeeded(resp, "atleta_post", 400)
    /\ resp.detail = <<"A categoria nao foi encontrada", resp.input[1].categoria.nome>>
    /\ FilterByNome(centros, resp.input[1].centro_treinamento.nome) # {}
    /\ categorias # <<>>

\* C5 (as claimed): an athlete post whose two lookups found their rows
\* answers 201.
C5_ValidNamesAlwaysCreated ==
    [][\A r \in Requests : Steps(r, "insert") => resp'.status = 201]_vars

\* C5 (amended): an athlete post whose two lookups found their rows either
\* answers 201, with an id uuid4() drew and no stored athlete has, the
\* server's clock as created_at, neither of them a field of the payload, and
\* exactly one row appended, whose foreign keys are the keys of the rows the
\* lookups found; or, the insert failing, answers the generic 500 and
\* leaves the athlete table as it was.
C5_CreatedOrGenericError ==
    [][\A r \in Requests : Steps(r, "insert") =>
          \/ /\ Succeeded(resp', "atleta_post", 201)
             /\ resp'.id = resp'.body[1].id
             /\ resp'.id = UUID("atleta", drawn.atleta + 1)
             /\ ~AtletaStored(resp'.id)
             /\ resp'.body[1].created_at = now
             /\ {"id", "created_at"} \cap DOMAIN AtletaInOf(r) = {}
             /\ \A k \in DOMAIN AtletaInOf(r) : resp'.body[1][k] = AtletaInOf(r)[k]
             /\ Len(atletas') = Len(atletas) + 1
             /\ SubSeq(atletas', 1, Len(atletas)) = atletas
             /\ LET row == atletas'[Len(atletas')]
                IN  /\ row.id = resp'.id
                    /\ row.categoria_id = req[r].categoria
                    /\ row.centro_treinamento_id = req[r].centro_treinamento
                    /\ row.categoria_id \in FilterByNome(categorias, AtletaInOf(r).categoria.nome)
                    /\ row.centro_treinamento_id \in FilterByNome(centros, AtletaInOf(r).centro_treinamento.nome)
          \/ /\ Succeeded(resp', "atleta_post", 500)
             /\ resp'.detail = <<"Ocorreu um erro ao inserir os dados no banco", <<>>>>
             /\ atletas' = atletas]_vars

C5_Witness ==
    /\ Succeeded(resp, "atleta_post", 201)
    /\ Len(atletas) = 2
    /\ atletas[2].id = resp.id
    /\ atletas[2].categoria_id = 1
    /\ atletas[2].centro_treinamento_id = 1

\* C6: every stored athlete row has two foreign keys, each the key of one
\* stored category row and of one stored training-center row.
C6_ForeignKeysValid ==
    \A pk \in 1..Len(atletas) :
        /\ atletas[pk].categoria_id \in 1..Len(categorias)
        /\ atletas[pk].centro_treinamento_id \in 1..Len(centros)

\* athlete rows stored, and an update or a delete answered with success
C6_Witness ==
    /\ Len(atletas) = 2
    /\ \/ Succeeded(resp, "atleta_patch", 200)
       \/ Succeeded(resp, "atleta_delete", 204)

\* C7: GET, PATCH and DELETE of an athlete and GET of a training center, on
\* an id no stored row has, answer 404 with the id in the detail and leave
\* the three tables as they were.
AtletaByIdOps == {"atleta_get", "atleta_patch", "atleta_delete"}
C7_NotFound ==
    [][/\ (resp'.op \in AtletaByIdOps /\ ~AtletaStored(resp'.id)) =>
             /\ resp'.status = 404
             /\ resp'.detail = <<"Atleta nao encontrado no id", resp'.id>>
             /\ store' = store
       /\ (resp'.op = "centro_get" /\ ~CentroStored(resp'.id)) =>
             /\ resp'.status = 404
             /\ resp'.detail = <<"Centro de Treinamento nao encontrado no id", resp'.id>>
             /\ store' = store]_vars

C7_Witness ==
    /\ Succeeded(resp, "atleta_delete", 404)
    /\ atletas # <<>>
    /\ ~AtletaStored(resp.id)

\* C8: a write request changes the tables all at once or not at all: a step
\* that changes them appends one whole row to one table and answers 201;
\* a request answered with an error (400, 404, 500) leaves them as they were.
Grows(table, table2) == Len(table2) = Len(table) + 1 /\ SubSeq(table2, 1, Len(table)) = table
C8_Atomic ==
    [][/\ store' # store =>
             /\ resp'.status = 201
             /\ \/ Grows(atletas, atletas') /\ categorias' = categorias /\ centros' = centros
                \/ Grows(centros, centros') /\ categorias' = categorias /\ atletas' = atletas
                \/ Grows(categorias, categorias') /\ atletas' = atletas /\ centros' = centros
       /\ (resp' # resp /\ resp'.status \in {400, 404, 500}) => store' = store]_vars

\* the insert of an athlete post failed, over a table that has rows
C8_Witness ==
    /\ Succeeded(resp, "atleta_post", 500)
    /\ Len(atletas) = 1

\* C9: a GET by id that follows a create answered 201, no other request
\* answered between them, returns the representation the create returned.
C9_RoundTrip ==
    [][/\ (Succeeded(resp, "atleta_post", 201) /\ resp'.op = "atleta_get" /\ resp'.id = resp.id) =>
             resp'.status = 200 /\ resp'.body = resp.body
       /\ (Succeeded(resp, "centro_post", 201) /\ resp'.op = "centro_get" /\ resp'.id = resp.id) =>
             resp'.status = 200 /\ resp'.body = resp.body]_vars

\* the GET of an athlete created second, at a later time than the first
C9_Witness ==
    /\ Succeeded(resp, "atleta_get", 200)
    /\ Len(atletas) = 2
    /\ resp.body[1].created_at = 1
    /\ resp.body[1] = ModelValidate(atletas[2])

\* C10 (as claimed): of two athlete posts in flight together, both past
\* their lookups, each inserts its row and answers 201.
C10_BothAlwaysSucceed ==
    [][(\A q \in Requests : req[q].pc = "insert") =>
          \A r \in Requests : Steps(r, "insert") => (resp'.status = 201 /\ Grows(atletas, atletas'))]_vars

\* C10 (amended): of two athlete posts in flight together, each one that has
\* passed its lookups can insert whatever the other is doing; an insert
\* answered 201 adds its own row, one that fails answers 500 and adds none,
\* either way the other request is left as it was; and no two stored
\* athlete rows share an id.
C10_ConcurrentCreates ==
    /\ [](\A r \in Requests : req[r].pc = "insert" => ENABLED AtletaPostInsert(r, TRUE))
    /\ [](\A i, j \in 1..Len(atletas) : i # j => atletas[i].id # atletas[j].id)
    /\ [][\A r \in Requests : Steps(r, "insert") =>
              /\ resp'.status \in {201, 500}
              /\ resp'.status = 201 => (Grows(atletas, atletas') /\ atletas'[Len(atletas')].id = resp'.id)
              /\ resp'.status = 500 => atletas' = atletas
              /\ \A q \in Requests \ {r} : req'[q] = req[q]]_vars

\* both requests past their lookups, naming the same category and center
C10_Witness ==
    /\ \A r \in Requests : req[r].pc = "insert"
    /\ req[1].atleta_in[1].categoria = req[2].atleta_in[1].categoria
    /\ req[1].atleta_in[1].centro_treinamento = req[2].atleta_in[1].centro_treinamento
====
